---- MODULE Spec2Model ----
(***************************************************************************)
(* Giraffe (build.py): the incremental publish pipeline of the music       *)
(* portfolio builder.  One run is GiraffeBuilder.build() as called from    *)
(* main(): dependency check, directory scan, per-track encode and upload,  *)
(* site rendering, process exit.  The local files and the remote object    *)
(* store persist from one run to the next; Track objects do not.           *)
(***************************************************************************)
EXTENDS Integers, Sequences, FiniteSets, TLC

VARIABLES
    config,       \* Config: s3 client present, S3_BUCKET_NAME, S3_BASE_URL
    ffmpeg,       \* what running `ffmpeg -version` does on this machine
    dirs,         \* the entries of tracks/, by name
    fs,           \* per entry: the lossless master and the encoded artifact
    remote,       \* the object store: key -> object
    run,          \* number of runs started so far (also the clock tick)
    static_only,  \* --static-only of the current run
    pc,           \* position of the current run inside build()
    tracks,       \* the list scan_tracks returned, mutated in place
    i,            \* index of the track the loop of build() is at
    rendered,     \* the tracks whose page generate_site wrote in this run
    success,      \* the value build() returned
    log,          \* the external calls of the current run and their outcomes
    cmp,          \* one call of file_needs_upload: arguments and result
    enc           \* two calls of encode_mp3 on one track: files and results

vars == <<config, ffmpeg, dirs, fs, remote, run, static_only, pc,
          tracks, i, rendered, success, log, cmp, enc>>

(***************************************************************************)
(* Bounds                                                                  *)
(***************************************************************************)
MaxRuns == 2
MaxTime == 2

(***************************************************************************)
(* Python values                                                           *)
(***************************************************************************)
None == "<None>"

\* str(x) as an f-string formats it
Str(x) == IF x = None THEN "None" ELSE x

\* `not x` for an Optional[str]
Falsy(x) == x = None \/ x = ""

Contains(s, c) == \E j \in 1..Len(s) : s[j] = c

Quote == "\""

RECURSIVE LStrip(_)
LStrip(s) == IF s # <<>> /\ Head(s) = Quote THEN LStrip(Tail(s)) ELSE s

RECURSIVE RStrip(_)
RStrip(s) ==
    IF s # <<>> /\ s[Len(s)] = Quote THEN RStrip(SubSeq(s, 1, Len(s) - 1)) ELSE s

\* s.strip('"')
Strip(s) == RStrip(LStrip(s))

RECURSIVE Sorted(_)
Sorted(S) ==
    IF S = {} THEN <<>>
    ELSE LET m == CHOOSE x \in S : \A y \in S : x <= y
         IN  <<m>> \o Sorted(S \ {m})

Reverse(s) == [j \in 1..Len(s) |-> s[Len(s) + 1 - j]]

(***************************************************************************)
(* Files and their contents                                                *)
(***************************************************************************)
HexDigits == <<"0", "1", "2", "3", "4", "5", "6", "7", "8", "9">>

NoContent == [kind |-> "none", ver |-> 0, size |-> 0]

NoFile == [exists |-> FALSE, mtime |-> 0, content |-> NoContent]

WavFile(t, ver, size) ==
    [exists |-> TRUE, mtime |-> t,
     content |-> [kind |-> "wav", ver |-> ver, size |-> size]]

\* hashlib.md5(...).hexdigest(): a digest of hex digits, a function of the
\* bytes: every file of size 0 holds the same bytes and has the same digest,
\* whatever its name; contents of other sizes differ with kind and version
calculate_md5(file) ==
    LET c == file.content
    IN  IF c.size = 0 THEN <<"d", "0", "0">>
        ELSE << CASE c.kind = "wav" -> "a"
                  [] c.kind = "mp3" -> "b"
                  [] c.kind = "part" -> "c"
                  [] OTHER -> "d",
                HexDigits[c.ver + 1], HexDigits[c.size + 1] >>

st_size(file) == file.content.size

(***************************************************************************)
(* The remote store                                                        *)
(***************************************************************************)
NoObject == [exists |-> FALSE, ETag |-> <<>>, ContentLength |-> 0]

\* what s3_client.head_object answers for an object, or how it fails
head_object(obj, fault) ==
    CASE fault = "network" ->
           [kind |-> "BotoCoreError", code |-> "", ETag |-> <<>>,
            has_len |-> FALSE, ContentLength |-> 0]
      [] fault = "denied" ->
           [kind |-> "ClientError", code |-> "403", ETag |-> <<>>,
            has_len |-> FALSE, ContentLength |-> 0]
      [] fault = "none" /\ ~obj.exists ->
           [kind |-> "ClientError", code |-> "404", ETag |-> <<>>,
            has_len |-> FALSE, ContentLength |-> 0]
      [] OTHER ->
           [kind |-> "ok", code |-> "", ETag |-> obj.ETag,
            has_len |-> TRUE, ContentLength |-> obj.ContentLength]

\* the object the store holds after upload_file(path, bucket, key): the transfer
\* is multi-part from a size threshold on (here 5 size units) and the object
\* then carries a composite tag, otherwise the tag is the content hash
upload_file(file) ==
    [exists |-> TRUE,
     ETag |-> <<Quote>> \o calculate_md5(file)
                \o (IF st_size(file) >= 5 THEN <<"-", "2">> ELSE <<>>)
                \o <<Quote>>,
     ContentLength |-> st_size(file)]

Raised == [raised |-> TRUE, needs_upload |-> FALSE, has_etag |-> FALSE, etag |-> <<>>]

Decision(needs, has_etag, etag) ==
    [raised |-> FALSE, needs_upload |-> needs, has_etag |-> has_etag, etag |-> etag]

file_needs_upload_SizeOnly(s3_client, local, resp) ==
    IF ~s3_client THEN Decision(TRUE, FALSE, <<>>)
    ELSE IF resp.kind = "ok" THEN
        LET s3_etag == Strip(resp.ETag)
            s3_size == IF resp.has_len THEN resp.ContentLength ELSE 0
        IN  IF ~local.exists THEN Raised
            ELSE Decision(s3_size # st_size(local), TRUE, s3_etag)
    ELSE IF resp.kind = "ClientError" THEN Decision(TRUE, FALSE, <<>>)
    ELSE Raised

\* GiraffeBuilder.file_needs_upload
file_needs_upload(s3_client, local, resp) ==
    IF ~s3_client THEN Decision(TRUE, FALSE, <<>>)
    ELSE IF resp.kind = "ok" THEN
        LET s3_etag == Strip(resp.ETag)
            s3_size == IF resp.has_len THEN resp.ContentLength ELSE 0
        IN  IF ~local.exists THEN Raised    \* local_path.stat() raises
            ELSE IF Contains(s3_etag, "-") THEN
                IF s3_size = st_size(local)
                THEN Decision(FALSE, TRUE, s3_etag)
                ELSE Decision(TRUE, TRUE, s3_etag)
            ELSE
                IF s3_etag = calculate_md5(local)
                THEN Decision(FALSE, TRUE, s3_etag)
                ELSE Decision(TRUE, TRUE, s3_etag)
    ELSE IF resp.kind = "ClientError" THEN
        IF resp.code = "404"
        THEN Decision(TRUE, FALSE, <<>>)
        ELSE Decision(TRUE, FALSE, <<>>)
    ELSE Raised    \* not a ClientError: the except clause does not match

(***************************************************************************)
(* Configuration and the tracks directory                                  *)
(***************************************************************************)
BucketValues == {None, "giraffe-audio"}

BaseUrlValues == {None, "https://cdn.example"}

\* Config.__init__ and the client set up by GiraffeBuilder.__init__
Configs ==
    [s3_client : BOOLEAN, s3_bucket : BucketValues, s3_base_url : BaseUrlValues]

\* the names in tracks/, as sorted() orders them
DirNames == <<"alpha", "example-track", "zulu">>

RealDirs == {"alpha", "zulu"}

Shape(is_dir, md, wav, images) ==
    [is_dir |-> is_dir, md |-> md, wav |-> wav, images |-> images]

ValidShape == Shape(TRUE, "ok", TRUE, {1, 2})

\* what an entry of tracks/ can hold: md is the state of its markdown file,
\* wav whether a lossless master exists, images the image files by name order.
\* Under "not_mapping" the front matter is YAML that is no mapping but passes
\* the test `'title' in metadata`: a list with the item 'title', or a string
\* with the substring 'title'; under "not_mapping_untitled" it is no mapping
\* and fails the test: a list or string without 'title', or a number, on
\* which the test raises TypeError
DirShapes ==
    { Shape(FALSE, "ok", TRUE, {1}),
      Shape(TRUE, "none", TRUE, {1}),
      Shape(TRUE, "no_frontmatter", TRUE, {1}),
      Shape(TRUE, "one_delimiter", TRUE, {1}),
      Shape(TRUE, "unreadable", TRUE, {1}),
      Shape(TRUE, "no_title", TRUE, {1, 2}),
      Shape(TRUE, "not_mapping_untitled", TRUE, {1, 2}),
      Shape(TRUE, "not_mapping", FALSE, {1}),
      Shape(TRUE, "not_mapping", TRUE, {1, 2}),
      Shape(TRUE, "ok", FALSE, {1, 2}),
      Shape(TRUE, "ok", TRUE, {}),
      ValidShape }

directory(name) == "tracks/" \o name

wav_file_path(name) == directory(name) \o "/master.wav"

mp3_file_path(name) == directory(name) \o "/" \o name \o ".mp3"

mp3_key(slug) == slug \o "/" \o slug \o ".mp3"

wav_key(slug) == slug \o "/" \o slug \o ".wav"

Keys == {mp3_key(d) : d \in RealDirs} \cup {wav_key(d) : d \in RealDirs}

\* Track.__init__
Track(name) ==
    [slug |-> name, directory |-> directory(name), has_title |-> FALSE,
     metadata |-> "mapping",
     wav_path |-> None, mp3_path |-> None, cover_path |-> 0,
     image_paths |-> <<>>, mp3_url |-> "", wav_url |-> ""]

\* Track.load_metadata: the track with its metadata, and the value returned;
\* self.metadata is assigned before the title test
load_metadata(track, shape) ==
    CASE shape.md = "none" -> [ok |-> FALSE, track |-> track]
      [] shape.md = "unreadable" -> [ok |-> FALSE, track |-> track]
      [] shape.md = "no_frontmatter" -> [ok |-> FALSE, track |-> track]
      [] shape.md = "one_delimiter" -> [ok |-> FALSE, track |-> track]
      [] shape.md = "no_title" -> [ok |-> FALSE, track |-> track]
      [] shape.md = "not_mapping_untitled" ->
           [ok |-> FALSE, track |-> [track EXCEPT !.metadata = "not_mapping"]]
      [] shape.md = "not_mapping" ->
           [ok |-> TRUE, track |-> [track EXCEPT !.has_title = TRUE,
                                                 !.metadata = "not_mapping"]]
      [] OTHER -> [ok |-> TRUE, track |-> [track EXCEPT !.has_title = TRUE]]

AttributeError == "<AttributeError>"

\* Track.title: self.metadata.get('title', self.slug); a list or a string has
\* no attribute `get`
title(track) ==
    IF track.metadata # "mapping" THEN AttributeError
    ELSE IF track.has_title THEN "title of " \o track.slug
    ELSE track.slug

find_files_NoImageCheck(track, shape) ==
    IF ~shape.wav THEN [ok |-> FALSE, track |-> track]
    ELSE LET imgs == Sorted(shape.images)
         IN  [ok |-> TRUE,
              track |-> [track EXCEPT !.wav_path = wav_file_path(track.slug),
                                      !.image_paths = imgs,
                                      !.cover_path = IF imgs # <<>> THEN imgs[1] ELSE 0]]

\* Track.find_files
find_files(track, shape) ==
    IF ~shape.wav THEN [ok |-> FALSE, track |-> track]
    ELSE LET imgs == Sorted(shape.images)
             t1 == [track EXCEPT !.wav_path = wav_file_path(track.slug),
                                 !.image_paths = imgs]
         IN  IF imgs # <<>>
             THEN [ok |-> TRUE, track |-> [t1 EXCEPT !.cover_path = imgs[1]]]
             ELSE [ok |-> FALSE, track |-> t1]

\* the loop of scan_tracks over `names`: the list it builds, or the exception
\* that leaves it: the print after the append evaluates track.title
RECURSIVE ScanEntries(_, _)
ScanEntries(names, listing) ==
    IF names = <<>> THEN [raised |-> FALSE, tracks |-> <<>>]
    ELSE LET name == Head(names)
             rest == ScanEntries(Tail(names), listing)
             m == load_metadata(Track(name), listing[name])
             f == find_files(m.track, listing[name])
         IN  IF ~listing[name].is_dir THEN rest
             ELSE IF name = "example-track" THEN rest
             ELSE IF ~m.ok THEN rest
             ELSE IF ~f.ok THEN rest
             ELSE IF title(f.track) = AttributeError
                  THEN [raised |-> TRUE, tracks |-> <<>>]
             ELSE IF rest.raised THEN rest
             ELSE [raised |-> FALSE, tracks |-> <<f.track>> \o rest.tracks]

\* GiraffeBuilder.scan_tracks: the list returned, or raised when an
\* AttributeError leaves it
scan_tracks(listing) == ScanEntries(Reverse(DirNames), listing)

\* GiraffeBuilder.check_dependencies
check_dependencies(probe) ==
    CASE probe = "ok" -> TRUE
      [] probe = "nonzero" -> FALSE
      [] probe = "timeout" -> FALSE
      [] probe = "missing" -> FALSE

FfmpegProbes == {"ok", "nonzero", "timeout", "missing"}

(***************************************************************************)
(* The transcoder                                                          *)
(***************************************************************************)
\* how subprocess.run(cmd, ...) ends, and the output file the encoder left:
\* none, a partial one or a complete one.  "exception" is whatever the last
\* except clause catches: the encoder could not be started (no file), or
\* subprocess.run raised after the encoder ran (decoding its output under
\* text=True), and then the encoder may have written part or all of the file
EncoderOutcomes ==
    { [status |-> "ok", wrote |-> "complete"],
      [status |-> "nonzero", wrote |-> "nothing"],
      [status |-> "nonzero", wrote |-> "partial"],
      [status |-> "timeout", wrote |-> "nothing"],
      [status |-> "timeout", wrote |-> "partial"],
      [status |-> "exception", wrote |-> "nothing"],
      [status |-> "exception", wrote |-> "partial"],
      [status |-> "exception", wrote |-> "complete"] }

\* the artifact file after `ffmpeg -i wav ... -y mp3` ended with `outcome`
run_ffmpeg(wav, mp3, outcome, now) ==
    IF outcome.wrote = "complete" THEN
        [exists |-> TRUE, mtime |-> now,
         content |-> [kind |-> "mp3", ver |-> wav.content.ver,
                      size |-> wav.content.size - 2]]
    ELSE IF outcome.wrote = "partial" THEN
        [exists |-> TRUE, mtime |-> now,
         content |-> [kind |-> "part", ver |-> wav.content.ver, size |-> 1]]
    ELSE mp3

\* GiraffeBuilder.encode_mp3: the value returned, whether the encoder was
\* invoked, and the artifact file afterwards
encode_mp3(slug, wav, mp3, outcome, now) ==
    IF mp3.exists /\ mp3.mtime > wav.mtime
    THEN [ret |-> mp3_file_path(slug), invoked |-> FALSE, mp3 |-> mp3]
    ELSE [ret |-> IF outcome.status = "ok" THEN mp3_file_path(slug) ELSE None,
          invoked |-> TRUE,
          mp3 |-> run_ffmpeg(wav, mp3, outcome, now)]

(***************************************************************************)
(* One run of the builder                                                  *)
(***************************************************************************)
EmptyLog ==
    [probe |-> FALSE,              \* `ffmpeg -version` was run
     encode_called |-> {},         \* slugs encode_mp3 was called for
     encoder |-> {},               \* slugs the encoder was invoked for
     enc_failed |-> {},            \* slugs whose encoder invocation failed
     upload_called |-> {},         \* slugs upload_to_s3 was called for
     head |-> {},                  \* keys head_object was called for
     fault |-> [k \in Keys |-> "-"],     \* how each head_object call ended
     decision |-> [k \in Keys |-> "-"],  \* what file_needs_upload returned
     put |-> {},                   \* keys upload_file was called for
     put_ok |-> {},                \* keys whose upload_file returned normally
     scan |-> "-",                 \* scan_tracks: "-", "ok" or "raised"
     render |-> "-"]               \* generate_site: "-", "ok" or "raised"

CmpIdle == [phase |-> "idle"]

EncIdle == [phase |-> "idle"]

HeadFaults == {"none", "denied", "network"}

PutOutcomes == {"ok", "ClientError", "error"}

\* the versions a lossless master goes through, and the sizes it can have
WavVersions == {0, 1}

WavSizes == {5, 6}

\* the tracks whose lossless master is replaced between runs
EditedDirs == {"zulu"}

Init ==
    /\ config \in Configs
    /\ ffmpeg \in FfmpegProbes
    /\ dirs \in {d \in [{DirNames[n] : n \in 1..Len(DirNames)} -> DirShapes] :
                    d["example-track"] = ValidShape}
    /\ fs = [n \in DOMAIN dirs |->
                [wav |-> IF dirs[n].wav THEN WavFile(0, 0, 5) ELSE NoFile,
                 mp3 |-> NoFile]]
    /\ remote = [k \in Keys |-> NoObject]
    /\ run = 0
    /\ static_only = FALSE
    /\ pc = "start"
    /\ tracks = <<>>
    /\ i = 0
    /\ rendered = <<>>
    /\ success = FALSE
    /\ log = EmptyLog
    /\ cmp = CmpIdle
    /\ enc = EncIdle

\* main(): parse the flag, construct the builder, call build()
StartRun(flag) ==
    /\ pc \in {"start", "exited"}
    /\ run < MaxRuns
    /\ run' = run + 1
    /\ static_only' = flag
    /\ pc' = "check"
    /\ tracks' = <<>>
    /\ i' = 0
    /\ rendered' = <<>>
    /\ success' = FALSE
    /\ log' = EmptyLog
    /\ UNCHANGED <<config, ffmpeg, dirs, fs, remote, cmp, enc>>

\* build() returns `result`; main() exits with 0 if it is true, else 1
Return(result) ==
    /\ pc' = "exited"
    /\ success' = result

\* an exception leaves build() and main(): nothing catches it, `success` is
\* never assigned and the interpreter exits with status 1
Uncaught ==
    /\ pc' = "exited"
    /\ success' = FALSE

ExitCode == IF success THEN 0 ELSE 1

\* build(): the dependency check, skipped in static-only mode
CheckDependencies ==
    /\ pc = "check"
    /\ log' = [log EXCEPT !.probe = ~static_only]
    /\ IF ~static_only /\ ~check_dependencies(ffmpeg)
       THEN Return(FALSE)
       ELSE pc' = "scan" /\ UNCHANGED success
    /\ UNCHANGED <<config, ffmpeg, dirs, fs, remote, run, static_only,
                   tracks, i, rendered, cmp, enc>>

\* build(): scan, and return False when no valid track was found; an
\* exception scan_tracks raises ends the run
ScanTracks ==
    /\ pc = "scan"
    /\ LET s == scan_tracks(dirs)
       IN  /\ tracks' = s.tracks
           /\ log' = [log EXCEPT !.scan = IF s.raised THEN "raised" ELSE "ok"]
           /\ IF s.raised
              THEN Uncaught /\ UNCHANGED i
              ELSE IF s.tracks = <<>>
                   THEN Return(FALSE) /\ UNCHANGED i
                   ELSE IF ~static_only
                        THEN pc' = "encode" /\ i' = 1 /\ UNCHANGED success
                        ELSE pc' = "render" /\ UNCHANGED <<i, success>>
    /\ UNCHANGED <<config, ffmpeg, dirs, fs, remote, run, static_only,
                   rendered, cmp, enc>>

\* the loop of build() goes on to the next track, or ends
Advance ==
    IF i < Len(tracks)
    THEN i' = i + 1 /\ pc' = "encode"
    ELSE pc' = "render" /\ UNCHANGED i

EncodeMp3_AbortOnFailure(outcome) ==
    /\ pc = "encode"
    /\ LET t == tracks[i]
           r == encode_mp3(t.slug, fs[t.slug].wav, fs[t.slug].mp3, outcome, run)
       IN  /\ fs' = [fs EXCEPT ![t.slug].mp3 = r.mp3]
           /\ log' = [log EXCEPT
                  !.encode_called = @ \cup {t.slug},
                  !.encoder = IF r.invoked THEN @ \cup {t.slug} ELSE @,
                  !.enc_failed = IF r.invoked /\ outcome.status # "ok"
                                 THEN @ \cup {t.slug} ELSE @]
           /\ IF r.ret = None
              THEN pc' = "render" /\ UNCHANGED <<i, tracks>>
              ELSE /\ tracks' = [tracks EXCEPT ![i].mp3_path = r.ret]
                   /\ pc' = "upload_mp3"
                   /\ UNCHANGED i
    /\ UNCHANGED <<config, ffmpeg, dirs, remote, run, static_only,
                   rendered, success, cmp, enc>>

\* build(): encode the track the loop is at; on failure `continue`
EncodeMp3(outcome) ==
    /\ pc = "encode"
    /\ LET t == tracks[i]
           r == encode_mp3(t.slug, fs[t.slug].wav, fs[t.slug].mp3, outcome, run)
       IN  /\ fs' = [fs EXCEPT ![t.slug].mp3 = r.mp3]
           /\ log' = [log EXCEPT
                  !.encode_called = @ \cup {t.slug},
                  !.encoder = IF r.invoked THEN @ \cup {t.slug} ELSE @,
                  !.enc_failed = IF r.invoked /\ outcome.status # "ok"
                                 THEN @ \cup {t.slug} ELSE @]
           /\ IF r.ret = None
              THEN Advance /\ UNCHANGED tracks
              ELSE /\ tracks' = [tracks EXCEPT ![i].mp3_path = r.ret]
                   /\ pc' = "upload_mp3"
                   /\ UNCHANGED i
    /\ UNCHANGED <<config, ffmpeg, dirs, remote, run, static_only,
                   rendered, success, cmp, enc>>

Publish_AlwaysUpload(local, key, fault, put) ==
    LET resp == head_object(remote[key], fault)
        d == file_needs_upload(config.s3_client, local, resp)
        called == ~d.raised
        stored == called /\ put = "ok"
    IN  [decision |-> IF d.raised THEN "raised"
                      ELSE IF d.needs_upload THEN "needs" ELSE "skip",
         put_called |-> called,
         stored |-> stored,
         object |-> upload_file(local),
         ok |-> ~d.raised /\ stored]

\* one artifact inside the try block of upload_to_s3: the comparator's
\* decision, the upload when needed, and whether the statement that sets the
\* URL is reached
Publish(local, key, fault, put) ==
    LET resp == head_object(remote[key], fault)
        d == file_needs_upload(config.s3_client, local, resp)
        called == ~d.raised /\ d.needs_upload
        stored == called /\ put = "ok"
    IN  [decision |-> IF d.raised THEN "raised"
                      ELSE IF d.needs_upload THEN "needs" ELSE "skip",
         put_called |-> called,
         stored |-> stored,
         object |-> upload_file(local),
         ok |-> ~d.raised /\ (stored \/ ~d.needs_upload)]

Logged(key, fault, p) ==
    [log EXCEPT !.upload_called = @ \cup {tracks[i].slug},
                !.head = @ \cup {key},
                !.fault[key] = fault,
                !.decision[key] = p.decision,
                !.put = IF p.put_called THEN @ \cup {key} ELSE @,
                !.put_ok = IF p.stored THEN @ \cup {key} ELSE @]

UploadMp3_ContinuesToWav(fault, put) ==
    /\ pc = "upload_mp3"
    /\ LET t == tracks[i]
           key == mp3_key(t.slug)
           p == Publish(fs[t.slug].mp3, key, fault, put)
       IN  IF ~config.s3_client \/ Falsy(config.s3_bucket)
           THEN /\ log' = [log EXCEPT !.upload_called = @ \cup {t.slug}]
                /\ Advance
                /\ UNCHANGED <<remote, tracks>>
           ELSE /\ log' = Logged(key, fault, p)
                /\ remote' = IF p.stored THEN [remote EXCEPT ![key] = p.object]
                             ELSE remote
                /\ tracks' = IF p.ok
                             THEN [tracks EXCEPT ![i].mp3_url =
                                     Str(config.s3_base_url) \o "/" \o key]
                             ELSE tracks
                /\ pc' = "upload_wav"
                /\ UNCHANGED i
    /\ UNCHANGED <<config, ffmpeg, dirs, fs, run, static_only,
                   rendered, success, cmp, enc>>

UploadMp3_AbortsLoop(fault, put) ==
    /\ pc = "upload_mp3"
    /\ LET t == tracks[i]
           key == mp3_key(t.slug)
           p == Publish(fs[t.slug].mp3, key, fault, put)
       IN  IF ~config.s3_client \/ Falsy(config.s3_bucket)
           THEN /\ log' = [log EXCEPT !.upload_called = @ \cup {t.slug}]
                /\ Advance
                /\ UNCHANGED <<remote, tracks>>
           ELSE /\ log' = Logged(key, fault, p)
                /\ remote' = IF p.stored THEN [remote EXCEPT ![key] = p.object]
                             ELSE remote
                /\ IF p.ok
                   THEN /\ tracks' = [tracks EXCEPT ![i].mp3_url =
                                        Str(config.s3_base_url) \o "/" \o key]
                        /\ pc' = "upload_wav"
                        /\ UNCHANGED i
                   ELSE pc' = "render" /\ UNCHANGED <<i, tracks>>
    /\ UNCHANGED <<config, ffmpeg, dirs, fs, run, static_only,
                   rendered, success, cmp, enc>>

\* upload_to_s3, from its entry to the statement that sets mp3_url
UploadMp3(fault, put) ==
    /\ pc = "upload_mp3"
    /\ LET t == tracks[i]
           key == mp3_key(t.slug)
           p == Publish(fs[t.slug].mp3, key, fault, put)
       IN  IF ~config.s3_client \/ Falsy(config.s3_bucket)
           THEN /\ log' = [log EXCEPT !.upload_called = @ \cup {t.slug}]
                /\ Advance
                /\ UNCHANGED <<remote, tracks>>
           ELSE /\ log' = Logged(key, fault, p)
                /\ remote' = IF p.stored THEN [remote EXCEPT ![key] = p.object]
                             ELSE remote
                /\ IF p.ok
                   THEN /\ tracks' = [tracks EXCEPT ![i].mp3_url =
                                        Str(config.s3_base_url) \o "/" \o key]
                        /\ pc' = "upload_wav"
                        /\ UNCHANGED i
                   ELSE Advance /\ UNCHANGED tracks
    /\ UNCHANGED <<config, ffmpeg, dirs, fs, run, static_only,
                   rendered, success, cmp, enc>>

\* upload_to_s3, from the lossless artifact to its return
UploadWav(fault, put) ==
    /\ pc = "upload_wav"
    /\ LET t == tracks[i]
           key == wav_key(t.slug)
           p == Publish(fs[t.slug].wav, key, fault, put)
       IN  IF t.wav_path = None
           THEN UNCHANGED <<log, remote, tracks>>
           ELSE /\ log' = Logged(key, fault, p)
                /\ remote' = IF p.stored THEN [remote EXCEPT ![key] = p.object]
                             ELSE remote
                /\ tracks' = IF p.ok
                             THEN [tracks EXCEPT ![i].wav_url =
                                     Str(config.s3_base_url) \o "/" \o key]
                             ELSE tracks
    /\ Advance
    /\ UNCHANGED <<config, ffmpeg, dirs, fs, run, static_only,
                   rendered, success, cmp, enc>>

\* build(): generate_site and the return after it.  generate_site writes the
\* track pages one by one and the index last; an exception it raises leaves
\* the pages written so far (none, some or all of them) and no index, leaves
\* main() and the process exits with status 1
GenerateSite(ok) ==
    /\ pc = "render"
    /\ IF ok
       THEN /\ rendered' = tracks
            /\ log' = [log EXCEPT !.render = "ok"]
            /\ Return(TRUE)
       ELSE /\ \E written \in 0..Len(tracks) :
                  rendered' = SubSeq(tracks, 1, written)
            /\ log' = [log EXCEPT !.render = "raised"]
            /\ Uncaught
    /\ UNCHANGED <<config, ffmpeg, dirs, fs, remote, run, static_only,
                   tracks, i, cmp, enc>>

\* between two runs the lossless master of a track is replaced
TouchSource(d, size) ==
    /\ pc = "exited"
    /\ run < MaxRuns
    /\ fs[d].wav.exists
    /\ fs[d].wav.content.ver + 1 \in WavVersions
    /\ fs' = [fs EXCEPT ![d].wav = WavFile(run, @.content.ver + 1, size)]
    /\ UNCHANGED <<config, ffmpeg, dirs, remote, run, static_only, pc, tracks,
                   i, rendered, success, log, cmp, enc>>

Next ==
    \/ \E flag \in BOOLEAN : StartRun(flag)
    \/ CheckDependencies
    \/ ScanTracks
    \/ \E outcome \in EncoderOutcomes : EncodeMp3(outcome)
    \/ \E fault \in HeadFaults, put \in PutOutcomes : UploadMp3(fault, put)
    \/ \E fault \in HeadFaults, put \in PutOutcomes : UploadWav(fault, put)
    \/ \E ok \in BOOLEAN : GenerateSite(ok)
    \/ \E d \in EditedDirs, size \in WavSizes : TouchSource(d, size)

Spec == Init /\ [][Next]_vars

(***************************************************************************)
(* The comparator on its own: one call of file_needs_upload on every       *)
(* combination of a local file and an answer of the store                  *)
(***************************************************************************)
CmpLocals ==
    {NoFile} \cup
    { [exists |-> TRUE, mtime |-> 0,
       content |-> [kind |-> k, ver |-> 0, size |-> n]] :
         k \in {"wav", "mp3"}, n \in {0, 3, 5} }

\* the tags the store can hold: plain content hashes and composite tags
CmpTags ==
    LET hashes == {calculate_md5(f) : f \in CmpLocals \ {NoFile}}
    IN  hashes \cup {h \o <<"-", "2">> : h \in hashes}

CmpResponses ==
    { [kind |-> "ok", code |-> "", ETag |-> e, has_len |-> h, ContentLength |-> n] :
        e \in {t : t \in CmpTags} \cup {<<Quote>> \o t \o <<Quote>> : t \in CmpTags},
        h \in BOOLEAN, n \in {0, 3, 5} }
    \cup {head_object(NoObject, f) : f \in HeadFaults}

MainOff ==
    /\ config = [s3_client |-> FALSE, s3_bucket |-> None, s3_base_url |-> None]
    /\ ffmpeg = "ok"
    /\ dirs = [n \in {DirNames[k] : k \in 1..Len(DirNames)} |-> ValidShape]
    /\ fs = [n \in DOMAIN dirs |-> [wav |-> WavFile(0, 0, 5), mp3 |-> NoFile]]
    /\ remote = [k \in Keys |-> NoObject]
    /\ run = 0
    /\ static_only = FALSE
    /\ pc = "off"
    /\ tracks = <<>>
    /\ i = 0
    /\ rendered = <<>>
    /\ success = FALSE
    /\ log = EmptyLog

CmpInit ==
    /\ MainOff
    /\ enc = EncIdle
    /\ cmp \in [phase : {"args"}, s3_client : BOOLEAN, local : CmpLocals,
                resp : CmpResponses, out : {Raised}]

\* the call self.file_needs_upload(local_path, s3_key) and its return
CmpCall ==
    /\ cmp.phase = "args"
    /\ cmp' = [cmp EXCEPT !.phase = "returned",
                          !.out = file_needs_upload(cmp.s3_client, cmp.local, cmp.resp)]
    /\ UNCHANGED <<config, ffmpeg, dirs, fs, remote, run, static_only, pc,
                   tracks, i, rendered, success, log, enc>>

SpecCmp == CmpInit /\ [][CmpCall]_vars

(***************************************************************************)
(* The transcoder on its own: two calls of encode_mp3 on one track whose   *)
(* lossless master does not change                                         *)
(***************************************************************************)
EncInit ==
    /\ MainOff
    /\ cmp = CmpIdle
    /\ enc \in [phase : {"calls"}, slug : {"alpha"},
                wav : {WavFile(t, 0, 5) : t \in 0..MaxTime},
                mp3 : {NoFile} \cup
                      { [exists |-> TRUE, mtime |-> t,
                         content |-> [kind |-> k, ver |-> 0, size |-> n]] :
                           t \in 0..MaxTime, k \in {"mp3"}, n \in {3} },
                clock : {0},
                calls : {<<>>}]

\* one call self.encode_mp3(track) at time `now`
EncCall(outcome, now) ==
    /\ enc.phase = "calls"
    /\ Len(enc.calls) < 2
    /\ now >= enc.clock
    /\ LET r == encode_mp3(enc.slug, enc.wav, enc.mp3, outcome, now)
       IN  enc' = [enc EXCEPT
                     !.mp3 = r.mp3,
                     !.clock = now,
                     !.calls = Append(@, [before |-> enc.mp3, ret |-> r.ret,
                                          invoked |-> r.invoked, after |-> r.mp3])]
    /\ UNCHANGED <<config, ffmpeg, dirs, fs, remote, run, static_only, pc,
                   tracks, i, rendered, success, log, cmp>>

EncNext == \E outcome \in EncoderOutcomes, now \in 0..MaxTime : EncCall(outcome, now)

SpecEnc == EncInit /\ [][EncNext]_vars

(***************************************************************************)
(* Properties                                                              *)
(***************************************************************************)
\* the entries of tracks/ that hold a title, a lossless master and an image
ValidDirs ==
    { n \in RealDirs :
        /\ dirs[n].is_dir
        /\ dirs[n].md = "ok"
        /\ dirs[n].wav
        /\ dirs[n].images # {} }

Slugs(ts) == {ts[j].slug : j \in 1..Len(ts)}

\* the loop of build() over the tracks has ended in this run
LoopDone == pc \in {"render", "exited"} /\ tracks # <<>> /\ ~static_only

\* upload_file was called for the key and raised
UploadFailed(k) == k \in log.put \ log.put_ok

\* the publish decision for the key succeeded: uploaded, or found matching
Published(k) == k \in log.put_ok \/ log.decision[k] = "skip"

UrlOf(key) ==
    (IF config.s3_base_url = None THEN "None" ELSE config.s3_base_url)
        \o "/" \o key

\* C1: the decision table of file_needs_upload.  For an existing local file
\* and a store that was queried: a plain tag equal to the local content hash
\* gives "skip", a plain tag that differs gives "needs upload"; a composite
\* tag (one holding '-') gives "skip" when the remote size equals the local
\* size, whatever the content, and "needs upload" when the sizes differ; a
\* 404 gives "needs upload" with no tag.
C1_DecisionTable ==
    (cmp.phase = "returned" /\ cmp.s3_client /\ cmp.local.exists) =>
        LET r == cmp.resp
            tag == SelectSeq(r.ETag, LAMBDA c : c # Quote)
            composite == \E j \in 1..Len(tag) : tag[j] = "-"
            hash == calculate_md5(cmp.local)
            skip == ~cmp.out.raised /\ ~cmp.out.needs_upload /\ cmp.out.has_etag
                    /\ cmp.out.etag = tag
            needs == ~cmp.out.raised /\ cmp.out.needs_upload
        IN  /\ (r.kind = "ok" /\ ~composite /\ tag = hash) => skip
            /\ (r.kind = "ok" /\ ~composite /\ tag # hash) => needs
            /\ (r.kind = "ok" /\ composite /\ r.has_len
                  /\ r.ContentLength = cmp.local.content.size) => skip
            /\ (r.kind = "ok" /\ composite /\ r.has_len
                  /\ r.ContentLength # cmp.local.content.size) => needs
            /\ (r.kind = "ClientError" /\ r.code = "404")
                  => (needs /\ ~cmp.out.has_etag)

\* C1 witness: a composite tag made from another content, sizes equal: skipped
C1_Witness ==
    /\ cmp.phase = "returned"
    /\ cmp.s3_client
    /\ cmp.local.exists
    /\ cmp.resp.kind = "ok"
    /\ cmp.resp.ETag = <<Quote, "a", "0", "3", "-", "2", Quote>>
    /\ cmp.local.content.kind = "mp3"
    /\ cmp.resp.has_len
    /\ cmp.resp.ContentLength = cmp.local.content.size
    /\ ~cmp.out.needs_upload

\* C2: whenever head_object fails for a reason other than not-found, the
\* comparator reports "needs upload" and upload_file is called for that key.
C2_QueryFailureStillUploads ==
    \A k \in Keys :
        log.fault[k] \in {"denied", "network"} =>
            (log.decision[k] = "needs" /\ k \in log.put)

\* C3 as claimed: after a failed upload of a track's MP3 the same track's WAV
\* is still compared and, if needed, uploaded, and every later track is still
\* encoded and published.
C3_FailedMp3StillPublishesWav ==
    LoopDone =>
        \A j \in 1..Len(tracks) :
            UploadFailed(mp3_key(tracks[j].slug)) =>
                /\ wav_key(tracks[j].slug) \in log.head
                /\ (log.decision[wav_key(tracks[j].slug)] = "needs"
                      => wav_key(tracks[j].slug) \in log.put)
                /\ \A m \in (j + 1)..Len(tracks) :
                      tracks[m].slug \in log.encode_called

\* C3 amended: a failed upload of a track's MP3 ends upload_to_s3 for that
\* track (its WAV is neither compared nor uploaded and both URL fields stay
\* empty); a failed upload of either artifact does not stop the loop: every
\* later track is still encoded and, when encoded, compared with the store.
C3_FailedUploadSkipsRestOfTrackOnly ==
    /\ \A j \in 1..Len(tracks) :
          UploadFailed(mp3_key(tracks[j].slug)) =>
              /\ wav_key(tracks[j].slug) \notin log.head
              /\ wav_key(tracks[j].slug) \notin log.put
              /\ tracks[j].mp3_url = ""
              /\ tracks[j].wav_url = ""
    /\ LoopDone =>
          \A j \in 1..Len(tracks) :
              (UploadFailed(mp3_key(tracks[j].slug))
                 \/ UploadFailed(wav_key(tracks[j].slug))) =>
                  \A m \in (j + 1)..Len(tracks) :
                      /\ tracks[m].slug \in log.encode_called
                      /\ (tracks[m].mp3_path # None
                            => mp3_key(tracks[m].slug) \in log.head)

\* C3 witness: the first track's MP3 upload failed, the second track was
\* encoded and both its artifacts were uploaded
C3_Witness ==
    /\ LoopDone
    /\ Len(tracks) = 2
    /\ UploadFailed(mp3_key(tracks[1].slug))
    /\ tracks[2].slug \in log.encoder
    /\ mp3_key(tracks[2].slug) \in log.put_ok
    /\ wav_key(tracks[2].slug) \in log.put_ok

\* C4: upload_file is called for an artifact exactly when the comparator's
\* decision for it was "needs upload"; a track's URL field is non-empty if
\* and only if the artifact's publish decision succeeded (uploaded without
\* error, or found already matching); a URL that is set is
\* <base-url>/<slug>/<slug>.<ext>.
C4_UploadIffNeededUrlIffPublished ==
    /\ \A k \in Keys : (k \in log.put) <=> (log.decision[k] = "needs")
    /\ \A j \in 1..Len(tracks) :
          LET t == tracks[j]
          IN  /\ (t.mp3_url # "") <=> Published(mp3_key(t.slug))
              /\ (t.wav_url # "") <=> Published(wav_key(t.slug))
              /\ t.mp3_url # "" =>
                    t.mp3_url = UrlOf(t.slug \o "/" \o t.slug \o ".mp3")
              /\ t.wav_url # "" =>
                    t.wav_url = UrlOf(t.slug \o "/" \o t.slug \o ".wav")

\* C4 witness: at the end of a run one track has its MP3 found matching and
\* its WAV upload failed, the other has both artifacts uploaded
C4_Witness ==
    /\ pc = "exited"
    /\ Len(tracks) = 2
    /\ log.decision[mp3_key(tracks[1].slug)] = "skip"
    /\ tracks[1].mp3_url = "https://cdn.example/zulu/zulu.mp3"
    /\ UploadFailed(wav_key(tracks[1].slug))
    /\ tracks[1].wav_url = ""
    /\ mp3_key(tracks[2].slug) \in log.put_ok
    /\ tracks[2].wav_url = "https://cdn.example/alpha/alpha.wav"

\* C5: when the encoder invocation for a track fails (non-zero exit status,
\* timeout), no remote query or upload is attempted for that track and its
\* mp3_path and URL fields stay unset, and the build still encodes and
\* publishes every remaining track and reaches rendering.
C5_EncodeFailureSkipsOnlyThatTrack ==
    /\ \A j \in 1..Len(tracks) :
          LET t == tracks[j]
          IN  t.slug \in log.enc_failed =>
                /\ t.slug \notin log.upload_called
                /\ {mp3_key(t.slug), wav_key(t.slug)} \cap (log.head \cup log.put) = {}
                /\ t.mp3_path = None
                /\ t.mp3_url = ""
                /\ t.wav_url = ""
    /\ (LoopDone /\ log.enc_failed # {}) =>
          \A j \in 1..Len(tracks) :
              /\ tracks[j].slug \in log.encode_called
              /\ (tracks[j].slug \notin log.enc_failed
                    => tracks[j].slug \in log.upload_called)
    /\ (pc = "exited" /\ log.enc_failed # {}) => log.render # "-"

\* C5 witness: the first track's encoder run failed, the second track was
\* encoded and uploaded, and the site was rendered
C5_Witness ==
    /\ pc = "exited"
    /\ Len(tracks) = 2
    /\ tracks[1].slug \in log.enc_failed
    /\ tracks[2].slug \in log.encoder
    /\ tracks[2].mp3_url # ""
    /\ tracks[2].wav_url # ""
    /\ log.render = "ok"
    /\ Len(rendered) = 2

\* C6: the build exits with 1 if and only if the encoder dependency is
\* unavailable, the scan finds no valid track, or rendering fails; every
\* other run, whatever tracks fail to load, encode or upload, exits with 0.
C6_FailsIffEncoderUnavailableOrNoTrackOrRender ==
    pc = "exited" =>
        ((ExitCode = 1) <=>
            (ffmpeg # "ok" \/ ValidDirs = {} \/ log.render = "raised"))

\* C7: a static-only run never runs the encoder (neither the probe nor an
\* encode), never queries the store and never uploads; when a valid track
\* exists it reaches generate_site, and unless generate_site itself raises
\* the run renders every valid track and succeeds.
C7_StaticOnlyTouchesNothing ==
    (static_only /\ pc # "start") =>
        /\ ~log.probe
        /\ log.encode_called = {}
        /\ log.encoder = {}
        /\ log.upload_called = {}
        /\ log.head = {}
        /\ log.put = {}
        /\ (pc = "exited" /\ ValidDirs # {}) =>
              /\ log.render # "-"
              /\ log.render = "ok" =>
                    (success /\ Slugs(rendered) = ValidDirs)

\* C8: if the bucket name or the base URL is omitted from the configuration,
\* no upload is performed and no track URL field is set.
C8_IncompleteConfigDisablesPublishing ==
    (Falsy(config.s3_bucket) \/ Falsy(config.s3_base_url)) =>
        /\ log.put = {}
        /\ \A j \in 1..Len(tracks) :
              tracks[j].mp3_url = "" /\ tracks[j].wav_url = ""

\* C9: two calls of encode_mp3 on a track whose source does not change: when
\* the artifact is strictly newer than the source after the first call, both
\* calls return <track-dir>/<slug>.mp3 and the second does not invoke the
\* encoder; and the encoder is invoked whenever the artifact is missing or
\* not newer than the source.
C9_TranscoderIdempotent ==
    (enc.phase = "calls" /\ Len(enc.calls) = 2) =>
        LET c1 == enc.calls[1]
            c2 == enc.calls[2]
            path == "tracks/" \o enc.slug \o "/" \o enc.slug \o ".mp3"
        IN  /\ (c1.after.exists /\ c1.after.mtime > enc.wav.mtime) =>
                  (c1.ret = path /\ c2.ret = path /\ ~c2.invoked)
            /\ \A c \in {c1, c2} :
                  (~c.before.exists \/ c.before.mtime <= enc.wav.mtime)
                      => c.invoked

\* C10 as claimed: every rendered track is fully valid, every track that
\* fails loading or asset location is absent from the rendered output, and
\* no rendered track has a failed encode or upload step or only one of its
\* two URL fields set.
C10_NoPartiallyPublishedTrackRendered ==
    (pc = "exited" /\ log.render = "ok") =>
        /\ \A j \in 1..Len(rendered) :
              LET t == rendered[j]
              IN  /\ t.has_title /\ t.wav_path # None /\ t.image_paths # <<>>
                  /\ t.slug \notin log.enc_failed
                  /\ ~UploadFailed(mp3_key(t.slug))
                  /\ ~UploadFailed(wav_key(t.slug))
                  /\ (t.mp3_url = "") <=> (t.wav_url = "")
        /\ \A n \in RealDirs \ ValidDirs : n \notin Slugs(rendered)

\* C10 amended: every track whose page the renderer wrote is fully valid
\* (title, lossless source, at least one image) and a track that fails
\* loading or asset location is absent; when rendering completes the rendered
\* tracks are exactly the valid ones; a track whose encode or upload failed
\* is still rendered, with the URL field of each artifact that was not
\* published left empty.
C10_RenderedAreExactlyTheValidTracks ==
    pc = "exited" =>
        /\ \A j \in 1..Len(rendered) :
              LET t == rendered[j]
              IN  /\ t.has_title /\ t.wav_path # None /\ t.image_paths # <<>>
                  /\ title(t) # AttributeError
                  /\ t.slug \in ValidDirs
                  /\ ~Published(mp3_key(t.slug)) => t.mp3_url = ""
                  /\ ~Published(wav_key(t.slug)) => t.wav_url = ""
        /\ \A n \in RealDirs \ ValidDirs : n \notin Slugs(rendered)
        /\ log.render = "ok" => Slugs(rendered) = ValidDirs

\* C10 witness: the entry with two images and no lossless master is absent,
\* and the other track is rendered with its MP3 URL set and its WAV URL empty
C10_Witness ==
    /\ pc = "exited"
    /\ log.render = "ok"
    /\ dirs["zulu"] = Shape(TRUE, "ok", FALSE, {1, 2})
    /\ Len(rendered) = 1
    /\ rendered[1].slug = "alpha"
    /\ rendered[1].mp3_url # ""
    /\ rendered[1].wav_url = ""

\* the MP3 step of upload_to_s3 was entered for the key's track and did not
\* reach the statement that sets mp3_url
Mp3StepFailed(slug) ==
    mp3_key(slug) \in log.head /\ ~Published(mp3_key(slug))

\* C11, in every state: the artifacts of a track are published MP3 first,
\* WAV second, after a successful encode
C11_OrderInv ==
    \A j \in 1..Len(tracks) :
        LET t == tracks[j]
        IN  /\ t.wav_url # "" => (t.mp3_url # "" /\ t.mp3_path # None)
            /\ wav_key(t.slug) \in log.head =>
                  (Published(mp3_key(t.slug)) /\ t.mp3_path # None)
            /\ t.slug \in log.upload_called =>
                  (t.slug \in log.encode_called /\ t.mp3_path # None)
            /\ Mp3StepFailed(t.slug) =>
                  /\ wav_key(t.slug) \notin log.head \cup log.put
                  /\ t.wav_url = ""

\* C11, in every step: a step at the MP3 artifact that fails changes neither
\* the remote WAV object nor wav_url, and no step of a run changes the remote
\* WAV object of a track whose MP3 step failed in that run
C11_FailedMp3Step ==
    /\ (pc = "upload_mp3" /\ pc' # "upload_wav") =>
          /\ remote'[wav_key(tracks[i].slug)] = remote[wav_key(tracks[i].slug)]
          /\ tracks'[i].wav_url = tracks[i].wav_url
          /\ tracks'[i].wav_url = ""
    /\ \A j \in 1..Len(tracks) :
          (Mp3StepFailed(tracks[j].slug) /\ pc' # "check") =>
              /\ remote'[wav_key(tracks[j].slug)] = remote[wav_key(tracks[j].slug)]
              /\ tracks'[j].wav_url = ""

\* C11: within a run a track's artifacts are published in the order MP3 then
\* WAV after a successful encode: in every reachable state a non-empty
\* wav_url implies a non-empty mp3_url and a set mp3_path for the same track,
\* and a failure at the MP3 artifact leaves the remote WAV object and wav_url
\* untouched.
C11_Mp3BeforeWav == []C11_OrderInv /\ [][C11_FailedMp3Step]_vars

\* C11 witness: in a second run the first track's MP3 upload failed and the
\* WAV object stored for it by the first run was not queried, while the second
\* track has both URLs set
C11_Witness ==
    /\ run = 2
    /\ pc = "exited"
    /\ Len(tracks) = 2
    /\ UploadFailed(mp3_key(tracks[1].slug))
    /\ remote[wav_key(tracks[1].slug)].exists
    /\ wav_key(tracks[1].slug) \notin log.head
    /\ tracks[1].wav_url = ""
    /\ tracks[2].mp3_url # ""
    /\ tracks[2].wav_url # ""
    /\ tracks[2].mp3_path # None

====
